---- MODULE Spec2Model ----
(***************************************************************************)
(* A model of pygit.py: the loose-object store (hash_object, find_object,  *)
(* read_object), the index reader (read_index) and the status engine       *)
(* (get_status).                                                           *)
(*                                                                         *)
(* Python bytes and ASCII str values are sequences of character codes.     *)
(* A hex digit of a digest is a number 0..15.  The file system is the pair *)
(* (dirs, files): the object directories that exist and the object files,  *)
(* keyed by <<directory, name>>.                                           *)
(*                                                                         *)
(* Library functions are modelled by what they guarantee:                  *)
(*   hashlib.sha1   Sha1Digest: 20 bytes, collision-free on inputs shorter *)
(*                  than 20 bytes and changed by every single-byte change  *)
(*                  of a longer input;                                     *)
(*   zlib           ZlibCompress/ZlibDecompress: a header, a run-length    *)
(*                  body and a checksum; a truncated or empty stream is an *)
(*                  error on decompression.                                *)
(***************************************************************************)
EXTENDS Integers, Sequences, FiniteSets, TLC

\* ------------------------------------------------------------------ bounds
\* Longest object payload / working-tree file content.
MaxPayloadLen == 1
\* Most object files the store holds.
MaxObjects == 2
\* Most entries an index stream holds.
MaxEntries == 2
\* Writers racing in the concurrent specification.
NumWriters == 2

\* ------------------------------------------------------- character codes
NUL == 0
SP == 32
SLASH == 47
DOT == 46
Digit0 == 48
Whitespace == {9, 10, 11, 12, 13, 28, 29, 30, 31, 32}

Blob == <<98, 108, 111, 98>>
Tree == <<116, 114, 101, 101>>
Commit == <<99, 111, 109, 109, 105, 116>>
Kinds == {Blob, Tree, Commit}

\* Byte values payloads are drawn from: NUL, and the digit '1'.
PayloadBytes == {NUL, 49}

RECURSIVE SeqsUpTo(_, _)
SeqsUpTo(S, n) ==
  IF n = 0 THEN {<<>>}
  ELSE LET shorter == SeqsUpTo(S, n - 1)
       IN  shorter \cup {Append(s, x) : s \in {t \in shorter : Len(t) = n - 1}, x \in S}

Payloads == SeqsUpTo(PayloadBytes, MaxPayloadLen)

\* ------------------------------------------------------ bytes operations
\* b[i:j] of Python, 0-based, i and j already clipped to 0..len.
Slice(b, i, j) == IF j <= i THEN <<>> ELSE SubSeq(b, i + 1, j)

\* b[:-n] and b[-n:] of Python for n > 0.
DropLast(b, n) == IF Len(b) <= n THEN <<>> ELSE SubSeq(b, 1, Len(b) - n)
TakeLast(b, n) == IF Len(b) <= n THEN b ELSE SubSeq(b, Len(b) - n + 1, Len(b))

\* s.startswith(p)
StartsWith(s, p) == Len(p) <= Len(s) /\ SubSeq(s, 1, Len(p)) = p

\* Lexicographic order on character sequences (Python's str/bytes order).
RECURSIVE SeqLess(_, _)
SeqLess(a, b) ==
  IF b = <<>> THEN FALSE
  ELSE IF a = <<>> THEN TRUE
  ELSE IF a[1] # b[1] THEN a[1] < b[1]
  ELSE SeqLess(Tail(a), Tail(b))

\* str(n) for n >= 0, as character codes.
RECURSIVE Decimal(_)
Decimal(n) ==
  IF n < 10 THEN <<Digit0 + n>>
  ELSE Append(Decimal(n \div 10), Digit0 + (n % 10))

IsDigits(s) == s # <<>> /\ \A i \in 1..Len(s) : s[i] \in Digit0..(Digit0 + 9)

\* int(s) for a string of decimal digits.
RECURSIVE ParseInt(_)
ParseInt(s) ==
  IF s = <<>> THEN 0
  ELSE 10 * ParseInt(SubSeq(s, 1, Len(s) - 1)) + (s[Len(s)] - Digit0)

\* str.split(): the maximal runs of non-whitespace characters.
RECURSIVE SplitFrom(_, _, _, _)
SplitFrom(s, i, cur, acc) ==
  IF i > Len(s) THEN (IF cur = <<>> THEN acc ELSE Append(acc, cur))
  ELSE IF s[i] \in Whitespace
       THEN SplitFrom(s, i + 1, <<>>, IF cur = <<>> THEN acc ELSE Append(acc, cur))
       ELSE SplitFrom(s, i + 1, Append(cur, s[i]), acc)

Split(s) == SplitFrom(s, 1, <<>>, <<>>)

\* ----------------------------------------------------------------- sha1
\* Sum modulo 256 of the bytes of b at positions j, j + 19, j + 38, ...
\* counted from the end of b.
RECURSIVE FoldAt(_, _)
FoldAt(b, j) ==
  IF j > Len(b) THEN 0
  ELSE (b[Len(b) - j + 1] + FoldAt(b, j + 19)) % 256

\* hashlib.sha1(b).digest(): 20 bytes.
Sha1Digest(b) ==
  CHOOSE d \in {[j \in 1..20 |-> IF j = 20 THEN Len(v) % 256 ELSE FoldAt(v, j)] : v \in {b}} : TRUE

\* bytes.hex(): two hex digits per byte.
Hex(b) == [i \in 1..(2 * Len(b)) |->
            IF i % 2 = 1 THEN b[(i + 1) \div 2] \div 16 ELSE b[i \div 2] % 16]

\* hashlib.sha1(b).hexdigest(): 40 hex digits.
Sha1Hex(b) == Hex(Sha1Digest(b))

\* ----------------------------------------------------------------- zlib
\* Run-length body: (count, byte) pairs.
RECURSIVE RunLength(_)
RunLength(b) ==
  IF b = <<>> THEN <<>>
  ELSE LET rest == RunLength(Tail(b))
       IN  IF rest # <<>> /\ rest[2] = b[1] /\ rest[1] < 255
           THEN <<rest[1] + 1, b[1]>> \o SubSeq(rest, 3, Len(rest))
           ELSE <<1, b[1]>> \o rest

RECURSIVE RunExpand(_)
RunExpand(r) ==
  IF r = <<>> THEN <<>>
  ELSE [i \in 1..r[1] |-> r[2]] \o RunExpand(SubSeq(r, 3, Len(r)))

RECURSIVE ByteSum(_)
ByteSum(b) == IF b = <<>> THEN 0 ELSE (b[1] + ByteSum(Tail(b))) % 251

ZlibMagic == <<120, 156>>

\* zlib.compress(b)
ZlibCompress(b) == ZlibMagic \o RunLength(b) \o <<1 + ByteSum(b)>>

\* Whether c is a complete stream; zlib.decompress raises zlib.error otherwise.
ZlibValid(c) ==
  /\ Len(c) >= 3
  /\ SubSeq(c, 1, 2) = ZlibMagic
  /\ (Len(c) - 3) % 2 = 0
  /\ \A i \in 1..((Len(c) - 3) \div 2) : c[2 * i + 1] >= 1
  /\ c[Len(c)] = 1 + ByteSum(RunExpand(SubSeq(c, 3, Len(c) - 1)))

\* zlib.decompress(c) for a valid stream.
ZlibDecompress(c) == RunExpand(SubSeq(c, 3, Len(c) - 1))

\* --------------------------------------------------------- object codec
\* hash_object, lines 54-55: '{} {}'.format(obj_type, len(data)) + NUL + data
FullData(data, obj_type) == obj_type \o <<SP>> \o Decimal(Len(data)) \o <<NUL>> \o data

\* sha1[:2] and sha1[2:]: the object's directory and its file name.
ObjPath(sha1) == <<SubSeq(sha1, 1, 2), SubSeq(sha1, 3, Len(sha1))>>

\* The digest an object path names.
PathSha1(path) == path[1] \o path[2]

\* open(path, 'wb') followed by f.write(data): the file holds exactly data.
WriteFile(fs, path, data) ==
  [p \in DOMAIN fs \cup {path} |-> IF p = path THEN data ELSE fs[p]]

\* hash_object(data, obj_type, write) on the file system (ds, fs): the file
\* system it leaves, the digest it returns and whether it wrote.
HashObjectAlwaysWrites(ds, fs, data, obj_type, write) ==
  LET full_data == FullData(data, obj_type)
      sha1 == Sha1Hex(full_data)
      path == ObjPath(sha1)
  IN  IF write
      THEN [dirs |-> ds \cup {path[1]},
            files |-> WriteFile(fs, path, ZlibCompress(full_data)),
            sha1 |-> sha1, wrote |-> TRUE]
      ELSE [dirs |-> ds, files |-> fs, sha1 |-> sha1, wrote |-> FALSE]

HashObject(ds, fs, data, obj_type, write) ==
  LET full_data == FullData(data, obj_type)
      sha1 == Sha1Hex(full_data)
      path == ObjPath(sha1)
  IN  IF write /\ path \notin DOMAIN fs
      THEN [dirs |-> ds \cup {path[1]},
            files |-> WriteFile(fs, path, ZlibCompress(full_data)),
            sha1 |-> sha1, wrote |-> TRUE]
      ELSE [dirs |-> ds, files |-> fs, sha1 |-> sha1, wrote |-> FALSE]

\* os.listdir(obj_dir): the names in an existing directory.
ListDir(fs, d) == {p[2] : p \in {q \in DOMAIN fs : q[1] = d}}

\* find_object(sha1_prefix): the object's path, or the exception raised.
FindObject(ds, fs, sha1_prefix) ==
  IF Len(sha1_prefix) < 2
  THEN [exc |-> "ValueError", msg |-> "hash prefix must be 2 or more characters"]
  ELSE LET obj_dir == SubSeq(sha1_prefix, 1, 2)
           rest == SubSeq(sha1_prefix, 3, Len(sha1_prefix))
       IN  IF obj_dir \notin ds
           THEN [exc |-> "FileNotFoundError", msg |-> "listdir"]
           ELSE LET objects == {name \in ListDir(fs, obj_dir) : StartsWith(name, rest)}
                IN  IF objects = {}
                    THEN [exc |-> "ValueError", msg |-> "object not found"]
                    ELSE IF Cardinality(objects) >= 2
                    THEN [exc |-> "ValueError", msg |-> "multiple objects"]
                    ELSE [exc |-> "none", path |-> <<obj_dir, CHOOSE n \in objects : TRUE>>]

\* full_data.index(b'\x00'): the first NUL, 0 when there is none.
LastNulIndex(b) ==
  IF \E i \in 1..Len(b) : b[i] = NUL
  THEN CHOOSE i \in 1..Len(b) : b[i] = NUL /\ \A j \in (i + 1)..Len(b) : b[j] # NUL
  ELSE 0

NulIndex(b) ==
  IF \E i \in 1..Len(b) : b[i] = NUL
  THEN CHOOSE i \in 1..Len(b) : b[i] = NUL /\ \A j \in 1..(i - 1) : b[j] # NUL
  ELSE 0

\* read_object, lines 98-105, on the bytes read from the object file.
DecodeObject(raw) ==
  IF ~ZlibValid(raw) THEN [exc |-> "zlib.error", msg |-> "decompress"]
  ELSE LET full_data == ZlibDecompress(raw)
           nul_index == NulIndex(full_data)
       IN  IF nul_index = 0 THEN [exc |-> "ValueError", msg |-> "subsection not found"]
           ELSE LET header == SubSeq(full_data, 1, nul_index - 1)
                    parts == Split(header)
                    data == SubSeq(full_data, nul_index + 1, Len(full_data))
                IN  IF Len(parts) # 2
                    THEN [exc |-> "ValueError", msg |-> "unpack header"]
                    ELSE IF ~IsDigits(parts[2])
                    THEN [exc |-> "ValueError", msg |-> "invalid literal for int"]
                    ELSE IF ParseInt(parts[2]) # Len(data)
                    THEN [exc |-> "AssertionError", msg |-> "expected size"]
                    ELSE [exc |-> "none", obj_type |-> parts[1], data |-> data]

\* read_object(sha1_prefix)
ReadObject(ds, fs, sha1_prefix) ==
  LET found == FindObject(ds, fs, sha1_prefix)
  IN  IF found.exc # "none" THEN found ELSE DecodeObject(fs[found.path])

\* The error kind of the design an outcome stands for.
ErrorKind(out) ==
  IF out.exc = "none" THEN "ok"
  ELSE IF out.exc = "FileNotFoundError" THEN "FilesystemError"
  ELSE IF out.msg = "hash prefix must be 2 or more characters" THEN "InvalidPrefix"
  ELSE IF out.msg = "object not found" THEN "NotFound"
  ELSE IF out.msg = "multiple objects" THEN "AmbiguousAddress"
  ELSE "CorruptObject"

\* ------------------------------------------------------------ the inputs
Objects == {[data |-> d, obj_type |-> k] : d \in Payloads, k \in Kinds}
AllAddrs == {Sha1Hex(FullData(o.data, o.obj_type)) : o \in Objects}
PrefixLens == {0, 1, 2, 3, 4, 7, 8, 40}
Prefixes == {SubSeq(a, 1, n) : a \in AllAddrs, n \in PrefixLens}

\* ------------------------------------------------------------- the state
VARIABLES
  dirs,      \* the object directories that exist under .git/objects
  files,     \* object path -> the bytes of the object file
  nwrites,   \* object path -> how many times write_file wrote it
  created,   \* object path -> the bytes its first write left
  putLog,    \* the hash_object(write=True) calls made: data, obj_type, sha1
  pc,        \* "idle", or "returned" when ret holds a call's outcome
  ret,       \* the last call and its outcome
  wst,       \* writer -> where it is in hash_object, and on which object
  rst,       \* where the reader is in read_object, and what it has seen
  indexFile, \* .git/index: absent, or its bytes
  indexShape,\* how the bytes of .git/index were put together
  tree,      \* working tree: path components -> file content
  prev       \* the previous get_status call: its inputs and its outcome

storeVars == <<dirs, files, nwrites, created, putLog>>
callVars == <<pc, ret>>
concVars == <<wst, rst>>
indexVars == <<indexFile, indexShape>>
treeVars == <<tree, prev>>
vars == <<storeVars, callVars, concVars, indexVars, treeVars>>

\* What the object store's calls, the racing processes and the status
\* calls leave alone.
storeFrame == <<concVars, indexVars, treeVars>>
concFrame == <<nwrites, created, putLog, callVars, indexVars, treeVars>>
statusFrame == <<nwrites, created, putLog, concVars>>

NoCall == [op |-> "none"]
WIdle == [pc |-> "idle"]
RIdle == [pc |-> "idle"]
NoIndex == [exists |-> FALSE]
NoShape == [class |-> "absent", n |-> 0, entries |-> <<>>, tail |-> <<>>]
NoPrev == [set |-> FALSE]

Init ==
  /\ dirs = {}
  /\ files = <<>>
  /\ nwrites = <<>>
  /\ created = <<>>
  /\ putLog = {}
  /\ pc = "idle"
  /\ ret = NoCall
  /\ wst = [w \in 1..NumWriters |-> WIdle]
  /\ rst = RIdle
  /\ indexFile = NoIndex
  /\ indexShape = NoShape
  /\ tree = <<>>
  /\ prev = NoPrev

\* The bookkeeping of one hash_object call with outcome h.
Logged(h, data, obj_type) ==
  LET path == ObjPath(h.sha1)
  IN  /\ dirs' = h.dirs
      /\ files' = h.files
      /\ nwrites' = IF h.wrote
                    THEN [q \in DOMAIN nwrites \cup {path} |->
                           IF q = path
                           THEN (IF q \in DOMAIN nwrites THEN nwrites[q] + 1 ELSE 1)
                           ELSE nwrites[q]]
                    ELSE nwrites
      /\ created' = IF h.wrote /\ path \notin DOMAIN created
                    THEN [q \in DOMAIN created \cup {path} |->
                           IF q = path THEN h.files[path] ELSE created[q]]
                    ELSE created
      /\ putLog' = putLog \cup {[data |-> data, obj_type |-> obj_type, sha1 |-> h.sha1]}

\* A caller stores an object: hash_object(data, obj_type).
Put(data, obj_type) ==
  /\ pc = "idle"
  /\ \E h \in {HashObject(dirs, files, data, obj_type, TRUE)} :
         /\ IF ObjPath(h.sha1) \in DOMAIN files THEN TRUE
            ELSE Cardinality(DOMAIN files) < MaxObjects
         /\ Logged(h, data, obj_type)
         /\ ret' = [op |-> "put", data |-> data, obj_type |-> obj_type,
                    sha1 |-> h.sha1, wrote |-> h.wrote]
  /\ pc' = "returned"
  /\ UNCHANGED storeFrame

\* A caller resolves a prefix: find_object(sha1_prefix).
Resolve(sha1_prefix) ==
  /\ pc = "idle"
  /\ ret' = [op |-> "resolve", prefix |-> sha1_prefix,
             out |-> FindObject(dirs, files, sha1_prefix)]
  /\ pc' = "returned"
  /\ UNCHANGED <<storeVars, storeFrame>>

\* A caller reads an object: read_object(sha1_prefix).
Get(sha1_prefix) ==
  /\ pc = "idle"
  /\ ret' = [op |-> "get", prefix |-> sha1_prefix,
             out |-> ReadObject(dirs, files, sha1_prefix)]
  /\ pc' = "returned"
  /\ UNCHANGED <<storeVars, storeFrame>>

\* The caller takes the outcome.
Return ==
  /\ pc = "returned"
  /\ pc' = "idle"
  /\ ret' = NoCall
  /\ UNCHANGED <<storeVars, storeFrame>>

PutStep == \E o \in Objects : Put(o.data, o.obj_type)
ResolveStep == \E x \in Prefixes : Resolve(x)
GetStep == \E x \in Prefixes : Get(x)


\* ------------------------------------------- concurrent put and get
\* Processes run hash_object and read_object with no lock between them; a
\* step is one file-system call.
Writers == 1..NumWriters

\* What the racing callers store and look up.
ConcObjects == {[data |-> <<>>, obj_type |-> Blob], [data |-> <<49>>, obj_type |-> Blob]}
ConcAddrs == {Sha1Hex(FullData(o.data, o.obj_type)) : o \in ConcObjects}

\* The bytes one write(2) call moves at most.
ChunkLen == 8

\* hash_object, lines 54-56: the caller computes the digest.
WBegin(w, o) ==
  /\ wst[w].pc = "idle"
  /\ wst' = [wst EXCEPT ![w] =
       [pc |-> "exists", data |-> o.data, obj_type |-> o.obj_type,
        sha1 |-> Sha1Hex(FullData(o.data, o.obj_type)), off |-> 0]]
  /\ UNCHANGED <<dirs, files, rst, concFrame>>

\* line 60: os.path.exists(path)
WExists(w) ==
  /\ wst[w].pc = "exists"
  /\ wst' = [wst EXCEPT ![w].pc =
       IF ObjPath(wst[w].sha1) \in DOMAIN files THEN "done" ELSE "makedirs"]
  /\ UNCHANGED <<dirs, files, rst, concFrame>>

\* line 61: os.makedirs(dirname, exist_ok=True)
WMakeDirs(w) ==
  /\ wst[w].pc = "makedirs"
  /\ dirs' = dirs \cup {ObjPath(wst[w].sha1)[1]}
  /\ wst' = [wst EXCEPT ![w].pc = "open"]
  /\ UNCHANGED <<files, rst, concFrame>>

\* write_file, line 30: open(path, 'wb') creates the file or truncates it.
WOpen(w) ==
  /\ wst[w].pc = "open"
  /\ files' = WriteFile(files, ObjPath(wst[w].sha1), <<>>)
  /\ wst' = [wst EXCEPT ![w].pc = "write"]
  /\ UNCHANGED <<dirs, rst, concFrame>>

\* The file after chunk is written at offset off: a gap left by another
\* writer's truncation reads as NUL bytes.
WriteAt(content, off, chunk) ==
  [i \in 1..(IF Len(content) > off + Len(chunk) THEN Len(content) ELSE off + Len(chunk)) |->
     IF i > off /\ i <= off + Len(chunk) THEN chunk[i - off]
     ELSE IF i <= Len(content) THEN content[i] ELSE NUL]

\* write_file, line 31: f.write(data) and the close; the bytes reach the
\* file in one write call or in several.
WWrite(w) ==
  /\ wst[w].pc = "write"
  /\ LET path == ObjPath(wst[w].sha1)
         data == ZlibCompress(FullData(wst[w].data, wst[w].obj_type))
         off == wst[w].off
     IN  \E n \in {Len(data) - off, ChunkLen} :
           /\ n >= 1
           /\ n <= Len(data) - off
           /\ files' = [files EXCEPT ![path] =
                          WriteAt(files[path], off, SubSeq(data, off + 1, off + n))]
           /\ wst' = [wst EXCEPT ![w].off = off + n,
                                 ![w].pc = IF off + n = Len(data) THEN "done" ELSE "write"]
  /\ UNCHANGED <<dirs, rst, concFrame>>

\* line 64: return sha1
WReturn(w) ==
  /\ wst[w].pc = "done"
  /\ wst' = [wst EXCEPT ![w] = WIdle]
  /\ UNCHANGED <<dirs, files, rst, concFrame>>

\* read_object, line 94: find_object lists the directory.
RFind(sha1_prefix) ==
  /\ rst.pc = "idle"
  /\ LET found == FindObject(dirs, files, sha1_prefix)
     IN  rst' = IF found.exc = "none"
                THEN [pc |-> "read", prefix |-> sha1_prefix, path |-> found.path]
                ELSE [pc |-> "done", prefix |-> sha1_prefix, out |-> found]
  /\ UNCHANGED <<dirs, files, wst, concFrame>>

\* read_object, lines 98-105: read_file and the decoding of what it read.
RRead ==
  /\ rst.pc = "read"
  /\ rst' = [pc |-> "done", prefix |-> rst.prefix, out |-> DecodeObject(files[rst.path])]
  /\ UNCHANGED <<dirs, files, wst, concFrame>>

RReturn ==
  /\ rst.pc = "done"
  /\ rst' = RIdle
  /\ UNCHANGED <<dirs, files, wst, concFrame>>

WBeginStep == \E w \in Writers, o \in ConcObjects : WBegin(w, o)
WExistsStep == \E w \in Writers : WExists(w)
WMakeDirsStep == \E w \in Writers : WMakeDirs(w)
WOpenStep == \E w \in Writers : WOpen(w)
WWriteStep == \E w \in Writers : WWrite(w)
WReturnStep == \E w \in Writers : WReturn(w)
RFindStep == \E a \in ConcAddrs : RFind(a)

\* ------------------------------------------------------------ the index
\* struct '!L' and '!H': big-endian unsigned integers.
U32(n) == <<(n \div 16777216) % 256, (n \div 65536) % 256, (n \div 256) % 256, n % 256>>
U16(n) == <<(n \div 256) % 256, n % 256>>
BE32(b) == ((b[1] * 256 + b[2]) * 256 + b[3]) * 256 + b[4]
BE16(b) == b[1] * 256 + b[2]

\* b'DIRC'
Signature == <<68, 73, 82, 67>>
\* The only index version read_index accepts.
IndexVersion == 2
\* struct.calcsize('!LLLLLLLLLL20sH')
FieldsLen == 62
\* The digest that ends the index, and the header before the entries.
DigestLen == 20
HeaderLen == 12

\* The ten integer fields of IndexEntry, in order.
IntFields == <<"ctime_s", "ctime_n", "mtime_s", "mtime_n", "dev", "ino",
               "mode", "uid", "gid", "size">>

RECURSIVE Concat(_)
Concat(ss) == IF ss = <<>> THEN <<>> ELSE ss[1] \o Concat(Tail(ss))

\* ((62 + len(path) + 8) // 8) * 8
EntryLen(path) == ((FieldsLen + Len(path) + 8) \div 8) * 8

\* The bytes of one entry on disk: the layout lines 156-162 read back.
EntryBytes(e) ==
  LET fixed == Concat([i \in 1..10 |-> U32(e[IntFields[i]])]) \o e.sha1 \o U16(e.flags)
  IN  fixed \o e.path \o [i \in 1..(EntryLen(e.path) - FieldsLen - Len(e.path)) |-> NUL]

\* The bytes of an index file: header, body and the digest of both.
IndexBytes(sig, version, n, body) ==
  LET content == sig \o U32(version) \o U32(n) \o body
  IN  content \o Sha1Digest(content)

\* struct.unpack('!LLLLLLLLLL20sH', b) for 62 bytes b.
UnpackFields(b) ==
  [f \in {IntFields[i] : i \in 1..10} |->
     LET i == CHOOSE k \in 1..10 : IntFields[k] = f
     IN  BE32(SubSeq(b, 4 * i - 3, 4 * i))]

\* bytes.index(needle, start): the 0-based position of the first match at or
\* after start.  A needle that is not bytes-like is a TypeError.
BytesIndex(hay, needle, start) ==
  IF needle.type # "bytes" THEN [exc |-> "TypeError", msg |-> "argument should be bytes-like"]
  ELSE LET hits == {i \in start..(Len(hay) - Len(needle.chars)) :
                      SubSeq(hay, i + 1, i + Len(needle.chars)) = needle.chars}
       IN  IF hits = {} THEN [exc |-> "ValueError", msg |-> "subsection not found"]
           ELSE [exc |-> "none", pos |-> CHOOSE i \in hits : \A j \in hits : i <= j]

\* The literal '\x00' of line 157: a str, not bytes.
NulLiteral == [type |-> "str", chars |-> <<NUL>>]

\* The loop of lines 154-162 from offset idx on, with the entries read so
\* far and the offsets they were read at.
RECURSIVE ParseEntries(_, _, _, _)
ParseEntries(entry_data, idx, entries, offsets) ==
  IF ~(idx + FieldsLen < Len(entry_data))
  THEN [exc |-> "none", entries |-> entries, offsets |-> offsets]
  ELSE LET field_end == idx + FieldsLen
           raw == Slice(entry_data, idx, field_end)
           found == BytesIndex(entry_data, NulLiteral, field_end)
       IN  IF found.exc # "none"
           THEN [exc |-> found.exc, msg |-> found.msg,
                 entries |-> entries, offsets |-> offsets]
           ELSE LET path == Slice(entry_data, field_end, found.pos)
                    entry == [f \in {IntFields[i] : i \in 1..10} \cup {"sha1", "flags", "path"} |->
                                IF f = "sha1" THEN SubSeq(raw, 41, 60)
                                ELSE IF f = "flags" THEN BE16(SubSeq(raw, 61, 62))
                                ELSE IF f = "path" THEN path
                                ELSE UnpackFields(raw)[f]]
                IN  ParseEntries(entry_data, idx + EntryLen(path),
                                 Append(entries, entry), Append(offsets, idx))

\* The check of line 164.
CountChecked(num_entries, loop) ==
  IF num_entries # Len(loop.entries)
  THEN [exc |-> "AssertionError", msg |-> "entry count",
        entries |-> loop.entries, offsets |-> loop.offsets]
  ELSE loop

\* read_index() on .git/index.
ReadIndex(ix) ==
  IF ~ix.exists THEN [exc |-> "none", entries |-> <<>>, offsets |-> <<>>]
  ELSE LET data == ix.data
       IN  IF Sha1Digest(DropLast(data, DigestLen)) # TakeLast(data, DigestLen)
           THEN [exc |-> "AssertionError", msg |-> "invalid index checksum"]
           ELSE IF Len(data) < HeaderLen
           THEN [exc |-> "struct.error", msg |-> "unpack requires a buffer of 12 bytes"]
           ELSE IF SubSeq(data, 1, 4) # Signature
           THEN [exc |-> "AssertionError", msg |-> "invalid index signature"]
           ELSE IF BE32(SubSeq(data, 5, 8)) # IndexVersion
           THEN [exc |-> "AssertionError", msg |-> "unknown index version"]
           ELSE LET entry_data == Slice(data, HeaderLen, Len(data) - DigestLen)
                    loop == ParseEntries(entry_data, 0, <<>>, <<>>)
                IN  IF loop.exc # "none" THEN loop
                    ELSE CountChecked(BE32(SubSeq(data, 9, 12)), loop)

\* The error kind of the design a read_index outcome stands for.
IndexErrorKind(out) ==
  IF out.exc = "none" THEN "ok"
  ELSE IF out.msg = "invalid index checksum" THEN "IndexChecksumError"
  ELSE IF out.msg = "unknown index version" THEN "UnsupportedIndexVersion"
  ELSE IF out.msg = "entry count" THEN "IndexCountMismatch"
  ELSE IF out.msg \in {"subsection not found", "unpack requires a buffer of 12 bytes"}
  THEN "IndexTruncated"
  ELSE IF out.msg = "invalid index signature" THEN "BadSignature"
  ELSE out.exc

\* ------------------------------------------------- index files to read
\* The paths "a", "b" and "d/c", and the file contents b"" and b"1".
IndexPaths == {<<97>>, <<98>>, <<100, SLASH, 99>>}
TreeContents == {<<>>, <<49>>}

\* The entry of a regular file (mode 0o100644) at path holding content.
MkEntry(path, content) ==
  [ctime_s |-> 1, ctime_n |-> 0, mtime_s |-> 1, mtime_n |-> 0, dev |-> 0, ino |-> 0,
   mode |-> 33188, uid |-> 0, gid |-> 0, size |-> Len(content),
   sha1 |-> Sha1Digest(FullData(content, Blob)), flags |-> Len(path), path |-> path]

EntryChoices == {MkEntry(p, c) : p \in IndexPaths, c \in TreeContents}

\* The entry sequences of at most n entries, paths unique.
RECURSIVE EntryLists(_)
EntryLists(n) ==
  IF n = 0 THEN {<<>>}
  ELSE LET shorter == EntryLists(n - 1)
       IN  shorter \cup
           {l \in {Append(es, e) : es \in {t \in shorter : Len(t) = n - 1},
                                    e \in EntryChoices} :
              \A i \in 1..(n - 1) : l[i].path # l[n].path}

AllEntryLists == EntryLists(MaxEntries)

EntriesBytes(es) == Concat([i \in 1..Len(es) |-> EntryBytes(es[i])])

WellFormed(es) == IndexBytes(Signature, IndexVersion, Len(es), EntriesBytes(es))

\* What may follow the last complete entry: nothing; ten stray bytes (fewer
\* than a fixed-width record); a fixed-width record whose path "ab" runs to
\* the end of the entry region with no NUL.
ShortTail == [i \in 1..10 |-> 1]
NoNulTail == [i \in 1..(FieldsLen + 2) |-> IF i <= FieldsLen THEN 0 ELSE 96 + i - FieldsLen]
Tails == {<<>>, ShortTail, NoNulTail}

OtherSignature == <<68, 73, 82, 88>>

\* An external writer leaves a well-formed index.
IndexWriteWell(es) ==
  /\ pc = "idle"
  /\ ~indexFile.exists
  /\ indexFile' = [exists |-> TRUE, data |-> WellFormed(es)]
  /\ indexShape' = [class |-> "well", n |-> Len(es), entries |-> es, tail |-> <<>>]
  /\ prev' = NoPrev
  /\ UNCHANGED <<storeVars, callVars, concVars, tree>>

\* A well-formed index with the byte at offset pos, before the digest,
\* changed to v.
IndexWriteFlipped(es, pos, v) ==
  /\ pc = "idle"
  /\ ~indexFile.exists
  /\ LET data == WellFormed(es)
     IN  /\ pos < Len(data) - DigestLen
         /\ v # data[pos + 1]
         /\ indexFile' = [exists |-> TRUE, data |-> [data EXCEPT ![pos + 1] = v]]
  /\ indexShape' = [class |-> "flipped", n |-> Len(es), entries |-> es, tail |-> <<>>]
  /\ prev' = NoPrev
  /\ UNCHANGED <<storeVars, callVars, concVars, tree>>

\* An index whose digest is right and whose header or entry region is not
\* what a writer of well-formed indexes leaves.
IndexWriteOdd(sig, version, n, es, tail) ==
  /\ pc = "idle"
  /\ ~indexFile.exists
  /\ ~(sig = Signature /\ version = IndexVersion /\ n = Len(es) /\ tail = <<>>)
  /\ indexFile' = [exists |-> TRUE,
                   data |-> IndexBytes(sig, version, n, EntriesBytes(es) \o tail)]
  /\ indexShape' = [class |-> "odd", n |-> n, entries |-> es, tail |-> tail,
                    sig |-> sig, version |-> version]
  /\ prev' = NoPrev
  /\ UNCHANGED <<storeVars, callVars, concVars, tree>>

\* The index file is removed.
IndexRemove ==
  /\ pc = "idle"
  /\ indexFile.exists
  /\ indexFile' = NoIndex
  /\ indexShape' = NoShape
  /\ prev' = NoPrev
  /\ UNCHANGED <<storeVars, callVars, concVars, tree>>

\* A caller reads the index: read_index().
ReadIndexCall ==
  /\ pc = "idle"
  /\ ret' = [op |-> "read_index", out |-> ReadIndex(indexFile)]
  /\ pc' = "returned"
  /\ UNCHANGED <<storeVars, storeFrame>>

IndexWriteWellStep ==
  /\ ~indexFile.exists
  /\ \E es \in AllEntryLists : IndexWriteWell(es)
IndexWriteFlippedStep ==
  /\ ~indexFile.exists
  /\ \E es \in AllEntryLists :
       LET data == WellFormed(es)
       IN  \E pos \in 0..(Len(data) - DigestLen - 1), d \in {1, 128} :
             IndexWriteFlipped(es, pos, (data[pos + 1] + d) % 256)
IndexWriteOddStep ==
  /\ ~indexFile.exists
  /\ \E sig \in {Signature, OtherSignature}, version \in {IndexVersion, 3},
        n \in 0..(MaxEntries + 1), es \in AllEntryLists, tail \in Tails :
       IndexWriteOdd(sig, version, n, es, tail)

\* ------------------------------------------------------ the working tree
\* '.git'
GitDir == <<DOT, 103, 105, 116>>
BACKSLASH == 92

\* The files a working tree may hold, as path components: a, b, d/c,
\* .git/x and d/.git/y.
TreePaths == {<<<<97>>>>, <<<<98>>>>, <<<<100>>, <<99>>>>,
              <<GitDir, <<120>>>>, <<<<100>>, GitDir, <<121>>>>}

\* The name os.walk gives the directory with components comps: '.', './d'.
RECURSIVE RootStr(_)
RootStr(comps) ==
  IF comps = <<>> THEN <<DOT>>
  ELSE RootStr(SubSeq(comps, 1, Len(comps) - 1)) \o <<SLASH>> \o comps[Len(comps)]

\* os.path.join(root, file)
JoinPath(root, file) == root \o <<SLASH>> \o file

\* Lines 190-192: backslashes become slashes, and a leading './' goes.
NormPath(path) ==
  LET fwd == [i \in 1..Len(path) |-> IF path[i] = BACKSLASH THEN SLASH ELSE path[i]]
  IN  IF StartsWith(fwd, <<DOT, SLASH>>) THEN SubSeq(fwd, 3, Len(fwd)) ELSE fwd

\* The files and the subdirectories of the directory root of tree tr.
FilesIn(tr, root) ==
  {p[Len(p)] : p \in {q \in DOMAIN tr :
                        Len(q) = Len(root) + 1 /\ SubSeq(q, 1, Len(root)) = root}}
DirsIn(tr, root) ==
  {p[Len(root) + 1] : p \in {q \in DOMAIN tr :
                               Len(q) > Len(root) + 1 /\ SubSeq(q, 1, Len(root)) = root}}

\* Lines 186-193: the paths os.walk reaches from root, '.git' pruned.
RECURSIVE Walk(_, _)
Walk(tr, root) ==
  {NormPath(JoinPath(RootStr(root), f)) : f \in FilesIn(tr, root)}
    \cup UNION {Walk(tr, Append(root, d)) : d \in {x \in DirsIn(tr, root) : x # GitDir}}

\* read_file(p) for a walked path p.
ReadTreeFile(tr, p) ==
  tr[CHOOSE q \in DOMAIN tr : NormPath(JoinPath(RootStr(SubSeq(q, 1, Len(q) - 1)), q[Len(q)])) = p]

\* The order a set yields its members in: they come as order lists them.
Iter(S, order) == LET In(x) == x \in S IN SelectSeq(order, In)

\* sorted(seq)
RECURSIVE Insert(_, _)
Insert(x, seq) ==
  IF seq = <<>> THEN <<x>>
  ELSE IF SeqLess(seq[1], x) THEN <<seq[1]>> \o Insert(x, Tail(seq))
  ELSE <<x>> \o seq

RECURSIVE InsertionSort(_)
InsertionSort(seq) == IF seq = <<>> THEN <<>> ELSE Insert(seq[1], InsertionSort(Tail(seq)))

Unsorted(seq) == seq

Sorted(seq) == InsertionSort(seq)

\* {e.path: e for e in entries}: a later entry replaces an earlier one.
EntriesByPath(entries) ==
  [p \in {entries[i].path : i \in 1..Len(entries)} |->
     entries[CHOOSE i \in 1..Len(entries) :
               entries[i].path = p /\ \A j \in (i + 1)..Len(entries) : entries[j].path # p]]

\* The hash_object(read_file(p), 'blob', write=False) calls of line 199 over
\* the paths ps, in order: the file system they leave and each digest.
RECURSIVE HashAll(_, _, _, _)
HashAll(ds, fs, tr, ps) ==
  IF ps = <<>> THEN [dirs |-> ds, files |-> fs, sha1 |-> <<>>]
  ELSE LET h == HashObject(ds, fs, ReadTreeFile(tr, ps[1]), Blob, FALSE)
           rest == HashAll(h.dirs, h.files, tr, Tail(ps))
       IN  [dirs |-> rest.dirs, files |-> rest.files, sha1 |-> <<h.sha1>> \o rest.sha1]

\* get_status() over the file system (ds, fs), the working tree tr and the
\* index file ix, with sets iterating in the given order.
StatusWith(ds, fs, tr, index, order) ==
  LET paths == Walk(tr, <<>>)
  IN  IF index.exc # "none"
      THEN [exc |-> index.exc, msg |-> index.msg, dirs |-> ds, files |-> fs]
      ELSE LET entries_by_path == EntriesByPath(index.entries)
               entry_paths == DOMAIN entries_by_path
               both == Iter(paths \cap entry_paths, order)
               hashed == HashAll(ds, fs, tr, both)
               changed == {both[i] : i \in {k \in 1..Len(both) :
                             hashed.sha1[k] # Hex(entries_by_path[both[k]].sha1)}}
           IN  [exc |-> "none",
                changed |-> Sorted(Iter(changed, order)),
                new |-> Sorted(Iter(paths \ entry_paths, order)),
                deleted |-> Sorted(Iter(entry_paths \ paths, order)),
                dirs |-> hashed.dirs, files |-> hashed.files]

GetStatus(ds, fs, tr, ix, order) ==
  CHOOSE r \in {StatusWith(ds, fs, tr, index, order) : index \in {ReadIndex(ix)}} : TRUE

\* Every path a status can name, ascending, and the iteration orders tried.
\* The path string of a tree file, components joined by '/'.
RECURSIVE PathStr(_)
PathStr(q) == IF Len(q) = 1 THEN q[1] ELSE q[1] \o <<SLASH>> \o PathStr(Tail(q))

AllPathStrs == {PathStr(q) : q \in TreePaths} \cup IndexPaths
RECURSIVE Ascending(_)
Ascending(S) ==
  IF S = {} THEN <<>>
  ELSE LET m == CHOOSE x \in S : \A y \in S : x = y \/ SeqLess(x, y)
       IN  <<m>> \o Ascending(S \ {m})
Reverse(seq) == [i \in 1..Len(seq) |-> seq[Len(seq) + 1 - i]]
IterOrders == {Ascending(AllPathStrs), Reverse(Ascending(AllPathStrs)),
               Tail(Ascending(AllPathStrs)) \o <<Ascending(AllPathStrs)[1]>>}

\* A file of the working tree is created or rewritten.
TreeWrite(q, content) ==
  /\ pc = "idle"
  /\ IF q \in DOMAIN tree THEN tree[q] # content ELSE TRUE
  /\ tree' = [x \in DOMAIN tree \cup {q} |-> IF x = q THEN content ELSE tree[x]]
  /\ prev' = NoPrev
  /\ UNCHANGED <<storeVars, callVars, concVars, indexVars>>

\* A file of the working tree is removed.
TreeRemove(q) ==
  /\ pc = "idle"
  /\ q \in DOMAIN tree
  /\ tree' = [x \in DOMAIN tree \ {q} |-> tree[x]]
  /\ prev' = NoPrev
  /\ UNCHANGED <<storeVars, callVars, concVars, indexVars>>

\* A caller asks for the status: get_status().
StatusCall(order) ==
  /\ pc = "idle"
  /\ \E r \in {GetStatus(dirs, files, tree, indexFile, order)} :
     LET out == IF r.exc = "none"
                THEN [exc |-> "none", changed |-> r.changed, new |-> r.new,
                      deleted |-> r.deleted]
                ELSE [exc |-> r.exc, msg |-> r.msg]
     IN  /\ dirs' = r.dirs
         /\ files' = r.files
         /\ ret' = [op |-> "status", out |-> out, before |-> prev,
                    pre |-> [dirs |-> dirs, files |-> files, tree |-> tree,
                             indexFile |-> indexFile]]
         /\ prev' = [set |-> TRUE, out |-> out]
  /\ pc' = "returned"
  /\ UNCHANGED <<statusFrame, indexVars, tree>>

TreeWriteStep == \E q \in TreePaths, c \in TreeContents : TreeWrite(q, c)
TreeRemoveStep == \E q \in TreePaths : TreeRemove(q)
StatusStep == \E order \in IterOrders : StatusCall(order)

\* ------------------------------------------------------ specifications
\* The object store under sequential calls.
NextStore == PutStep \/ ResolveStep \/ GetStep \/ Return
SpecStore == Init /\ [][NextStore]_vars

\* hash_object and read_object racing.
NextConc ==
  \/ WBeginStep \/ WExistsStep \/ WMakeDirsStep \/ WOpenStep \/ WWriteStep \/ WReturnStep
  \/ RFindStep \/ RRead \/ RReturn
SpecConc == Init /\ [][NextConc]_vars

\* read_index over index files of every shape.
NextIndex ==
  \/ IndexWriteWellStep \/ IndexWriteFlippedStep \/ IndexWriteOddStep \/ IndexRemove
  \/ ReadIndexCall \/ Return
SpecIndex == Init /\ [][NextIndex]_vars

\* get_status over working trees and well-formed index files.
NextStatus ==
  \/ TreeWriteStep \/ TreeRemoveStep \/ IndexWriteWellStep \/ IndexRemove
  \/ StatusStep \/ Return
SpecStatus == Init /\ [][NextStatus]_vars

Spec == SpecStore

\* ---------------------------------------------------------------- claims
StoredAddrs == {PathSha1(p) : p \in DOMAIN files}

\* C1: the store is write-once and deduplicating.  After any sequence of
\* puts every object file was written exactly once and still holds the bytes
\* its first write left, every put of the same (kind, payload) returned the
\* same address, and the address a put returns names a stored record whether
\* or not that put wrote.
C1_WriteOnceDedup ==
  /\ DOMAIN nwrites = DOMAIN files
  /\ \A p \in DOMAIN files : nwrites[p] = 1 /\ files[p] = created[p]
  /\ \A r1, r2 \in putLog :
       (r1.data = r2.data /\ r1.obj_type = r2.obj_type) => r1.sha1 = r2.sha1
  /\ (pc = "returned" /\ ret.op = "put") => ret.sha1 \in StoredAddrs

\* A put of an object already stored returned without writing.
C1_Witness ==
  /\ pc = "returned"
  /\ ret.op = "put"
  /\ ~ret.wrote
  /\ Cardinality(DOMAIN files) = MaxObjects

\* C2: round trip.  Every object put so far reads back, by the full address
\* put returned, as exactly its kind and payload, the length check passing;
\* and so does every get of such an address that a caller made.
C2_RoundTrip ==
  /\ \A r \in putLog :
       ReadObject(dirs, files, r.sha1) =
         [exc |-> "none", obj_type |-> r.obj_type, data |-> r.data]
  /\ (pc = "returned" /\ ret.op = "get" /\ ret.prefix \in StoredAddrs) =>
       /\ ret.out.exc = "none"
       /\ Sha1Hex(FullData(ret.out.data, ret.out.obj_type)) = ret.prefix

\* A get by full address returned the empty blob.
C2_Witness ==
  /\ pc = "returned"
  /\ ret.op = "get"
  /\ Len(ret.prefix) = 40
  /\ ret.out.exc = "none"
  /\ ret.out.obj_type = Blob
  /\ ret.out.data = <<>>

\* C3: resolve_prefix has one of four outcomes, decided by the length of
\* the prefix and the number of stored addresses that start with it:
\* InvalidPrefix under 2 characters, NotFound for no match, AmbiguousAddress
\* for two or more, and otherwise the one matching address.
C3_ResolveOutcomes ==
  (pc = "returned" /\ ret.op = "resolve") =>
    LET matches == {a \in StoredAddrs : StartsWith(a, ret.prefix)}
        kind == ErrorKind(ret.out)
    IN  IF Len(ret.prefix) < 2 THEN kind = "InvalidPrefix"
        ELSE IF matches = {} THEN kind = "NotFound"
        ELSE IF Cardinality(matches) >= 2 THEN kind = "AmbiguousAddress"
        ELSE kind = "ok" /\ PathSha1(ret.out.path) \in matches

\* C4: a prefix of 2 or more characters whose object directory does not
\* exist is NotFound, for resolve_prefix and for get.
C4_MissingDirNotFound ==
  (/\ pc = "returned"
   /\ ret.op \in {"resolve", "get"}
   /\ Len(ret.prefix) >= 2
   /\ SubSeq(ret.prefix, 1, 2) \notin dirs) => ErrorKind(ret.out) = "NotFound"

\* C5: index integrity.  Parsing a well-formed index succeeds, and parsing
\* one with a single byte before the trailing digest changed fails with
\* IndexChecksumError.
C5_IndexIntegrity ==
  (pc = "returned" /\ ret.op = "read_index") =>
    /\ indexShape.class = "well" => IndexErrorKind(ret.out) = "ok"
    /\ indexShape.class = "flipped" => IndexErrorKind(ret.out) = "IndexChecksumError"

\* C6: index truncation.  With a right digest and a valid header, bytes
\* after the last complete entry that are fewer than a fixed-width record,
\* or a record whose path has no NUL before the end, make parse fail with
\* IndexTruncated.
C6_IndexTruncation ==
  (/\ pc = "returned"
   /\ ret.op = "read_index"
   /\ indexShape.class = "odd"
   /\ indexShape.sig = Signature
   /\ indexShape.version = IndexVersion
   /\ indexShape.tail # <<>>) => IndexErrorKind(ret.out) = "IndexTruncated"

\* C7: when parse succeeds it returns as many entries as the header
\* declares, in stream order, each read at an offset that is a multiple of
\* 8; and when the number of entries the loop reads from the stream (its
\* complete entries, the loop running to the end of them) differs from the
\* declared count, parse fails with IndexCountMismatch.
C7_CountAndAlignment ==
  (/\ pc = "returned"
   /\ ret.op = "read_index"
   /\ indexShape.class \in {"well", "odd"}) =>
    LET declared == BE32(SubSeq(indexFile.data, 9, 12))
        header_ok == SubSeq(indexFile.data, 1, 4) = Signature
                       /\ BE32(SubSeq(indexFile.data, 5, 8)) = IndexVersion
    IN  /\ ret.out.exc = "none" =>
             /\ Len(ret.out.entries) = declared
             /\ Len(ret.out.entries) <= Len(indexShape.entries)
             /\ \A i \in 1..Len(ret.out.entries) :
                  /\ ret.out.entries[i].path = indexShape.entries[i].path
                  /\ ret.out.offsets[i] % 8 = 0
        /\ (/\ header_ok
            /\ indexShape.tail # NoNulTail
            /\ Len(indexShape.entries) # declared) =>
             IndexErrorKind(ret.out) = "IndexCountMismatch"

\* Whether a tree file lies under a '.git' directory at any depth.
UnderGit(q) == \E i \in 1..(Len(q) - 1) : q[i] = GitDir

Range(seq) == {seq[i] : i \in 1..Len(seq)}

\* C8: compute_status returns changed = the paths in both the index and
\* the tree whose content's blob address differs from the recorded hash,
\* new = tree paths minus index paths, deleted = index paths minus tree
\* paths; no file under the metadata directory is in any of them; an absent
\* index is an empty index.
C8_StatusSets ==
  (pc = "returned" /\ ret.op = "status") =>
    LET entries == indexShape.entries
        entry_paths == {entries[i].path : i \in 1..Len(entries)}
        tracked == {q \in DOMAIN tree : ~UnderGit(q)}
        tree_paths == {PathStr(q) : q \in tracked}
        hidden == {PathStr(q) : q \in DOMAIN tree \ tracked}
        drifted == {q \in tracked : \E i \in 1..Len(entries) :
                      /\ entries[i].path = PathStr(q)
                      /\ Sha1Hex(FullData(tree[q], Blob)) # Hex(entries[i].sha1)}
    IN  /\ ret.out.exc = "none"
        /\ Range(ret.out.changed) = {PathStr(q) : q \in drifted}
        /\ Range(ret.out.new) = tree_paths \ entry_paths
        /\ Range(ret.out.deleted) = entry_paths \ tree_paths
        /\ hidden \cap (Range(ret.out.changed) \cup Range(ret.out.new)
                          \cup Range(ret.out.deleted)) = {}

\* C9: a reader racing with writers finds the address absent or reads the
\* complete record, which decodes to the object of that address; it never
\* reads a partly written file.
C9_NoTornRead ==
  rst.pc = "done" =>
    \/ ErrorKind(rst.out) \in {"NotFound", "FilesystemError"}
    \/ /\ rst.out.exc = "none"
       /\ Sha1Hex(FullData(rst.out.data, rst.out.obj_type)) = rst.prefix

IsAscending(seq) == \A i \in 1..(Len(seq) - 1) : SeqLess(seq[i], seq[i + 1])

====
